---- MODULE Spec2Model ----
(***************************************************************************)
(* Model of the four MPI programs of the repository (main.cpp, test.cpp,   *)
(* benchmark.cpp, analysis.cpp): a fixed group of numProcs processes, each *)
(* running the same program text, communicating only through the           *)
(* collective calls MPI_Barrier, MPI_Bcast and MPI_Reduce (root 0).        *)
(*                                                                         *)
(* Representation choices                                                  *)
(*  - pc[r] is the position of rank r: a label "x_<op><line>" means that   *)
(*    rank r is about to call / is blocked in the collective of that       *)
(*    source line; "x_aft<line>" means it has left the barrier of that     *)
(*    line and has not yet run the local code that follows.                *)
(*  - A collective is matched across ranks by its order of call on the     *)
(*    communicator (cseq).  MPI_Bcast lets the root leave at once and a    *)
(*    receiver leave once the root has supplied the value; MPI_Reduce lets *)
(*    a contributor leave at once and the root leave once every            *)
(*    contribution is there; MPI_Barrier lets nobody leave before all have *)
(*    arrived.                                                             *)
(*  - A double that holds a sum is an integer (the summation is exact, the *)
(*    rounding of IEEE addition is not modelled).  A double that holds a   *)
(*    quotient is a record: Fin(num, den), NaN or Inf.                     *)
(*  - A std::vector<double> is a sequence of runs [cnt, val] (cnt equal    *)
(*    consecutive elements of value val).                                  *)
(*  - int is 32 bits wide, two's complement.                               *)
(***************************************************************************)
EXTENDS Integers, Sequences, FiniteSets, TLC

VARIABLES
    prog,           \* which of the four programs this run executes
    numProcs,       \* MPI_Comm_size
    pc,             \* pc[r]: position of rank r
    cseq,           \* cseq[r]: collectives rank r has completed
    inflight,       \* collectives some rank has entered and not all have left
    aborted,        \* "none", or why the whole job was terminated
    out,            \* console lines of main.cpp and of the robustness test
                    \* of analysis.cpp, in order of emission
    N,              \* main.cpp: int N of each rank
    valores,        \* main.cpp: std::vector<double> valores of each rank
    sumaParcial,    \* double sumaParcial of each rank
    sumaTotal,      \* double sumaTotal of each rank
    promedioFinal,  \* double promedioFinal of each rank
    loopI,          \* the loop variable i of the ordered-output loops
    valorRecibido,  \* test.cpp: int valorRecibido of testBroadcast
    checks,         \* test.cpp: the results the test functions returned so far
    todasLasPruebasPasan,   \* test.cpp: bool todasLasPruebasPasan
    resultadoTotal, \* test.cpp: int resultadoTotal
    exitCode,       \* the value main returned, -1 while the process runs
    ana,            \* analysis.cpp: the local variables of each rank
    bench,          \* benchmark.cpp: the local variables of each rank
    fileWrites,     \* benchmark.cpp: the writes of the CSV file, in order
    trace,          \* trace[r]: the collectives, timer starts, console writes
                    \* and input reads of rank r, in program order (kept for
                    \* main.cpp, test.cpp and analysis.cpp)
    fault           \* test.cpp: fault[r] is the test whose check is made to
                    \* fail at rank r (0: none)

mpiVars  == <<cseq, inflight, aborted>>
mainVars == <<N, valores, sumaParcial, sumaTotal, promedioFinal, loopI, out>>
testVars == <<valorRecibido, checks, todasLasPruebasPasan, resultadoTotal>>
locals   == <<mainVars, testVars, exitCode, ana, bench, fileWrites>>
vars     == <<prog, numProcs, pc, mpiVars, locals, trace, fault>>

\* what the actions of one program leave alone
mainFrame  == <<prog, numProcs, fault, testVars, ana, bench, fileWrites>>
testFrame  == <<prog, numProcs, fault, aborted, loopI, out, ana, bench,
                fileWrites>>
anaFrame   == <<prog, numProcs, fault, aborted, N, valores, sumaParcial,
                sumaTotal, promedioFinal, loopI, testVars, bench, fileWrites>>
benchFrame == <<prog, numProcs, fault, aborted, N, valores, sumaParcial,
                sumaTotal, promedioFinal, loopI, testVars, ana, out, trace>>

----------------------------------------------------------------------------
(* Bounds of the model *)

MaxProcs == 3       \* group sizes 1..MaxProcs
MaxAhead == 2       \* collectives a rank may be ahead of the slowest rank
MaxHead  == 2       \* elements of a generated vector kept one by one
MaxN     == 2       \* small values of N the user may type: -1..MaxN
MaxDur   == 2       \* measured durations, in microseconds: 0..MaxDur
BigN     == 1073741824  \* a large N the user may type (here 2^30)

Ranks == 0 .. (numProcs - 1)

NInputs == {-1} \cup (0 .. MaxN) \cup {BigN}

----------------------------------------------------------------------------
(* 32-bit int arithmetic *)

MaxInt32 == 2147483647
MinInt32 == (-MaxInt32) - 1

\* a + b in 32-bit two's complement (the wrapped result of the add instruction)
AddWrap32(a, b) ==
    IF a > 0 /\ b > 0 /\ a > MaxInt32 - b
        THEN (a + MinInt32) + (b + MinInt32)
    ELSE IF a < 0 /\ b < 0 /\ a < MinInt32 - b
        THEN (a - MinInt32) + (b - MinInt32)
    ELSE a + b

\* TRUE iff the mathematical sum a + b is not an int
AddOverflows32(a, b) ==
    \/ a > 0 /\ b > 0 /\ a > MaxInt32 - b
    \/ a < 0 /\ b < 0 /\ a < MinInt32 - b

\* a * b for 0 <= b, as b wrapped additions of a
RECURSIVE MulWrap32(_, _)
MulWrap32(a, b) == IF b = 0 THEN 0 ELSE AddWrap32(MulWrap32(a, b - 1), a)

\* TRUE iff the mathematical product a * b (0 <= b) is not an int
RECURSIVE MulOverflows32(_, _)
MulOverflows32(a, b) ==
    IF b = 0 THEN FALSE
    ELSE \/ MulOverflows32(a, b - 1)
         \/ AddOverflows32(MulWrap32(a, b - 1), a)

\* The outcomes of the int expression a * b.  Signed overflow is undefined:
\* the usual build wraps, a build with overflow trapping kills the process.
IntMul(a, b) ==
    IF MulOverflows32(a, b)
        THEN {[trap |-> FALSE, val |-> MulWrap32(a, b)],
              [trap |-> TRUE, val |-> 0]}
        ELSE {[trap |-> FALSE, val |-> a * b]}

----------------------------------------------------------------------------
(* double values that are quotients *)

NaN       == [k |-> "nan"]
Inf(s)    == [k |-> "inf", sign |-> s]
Fin(n, d) == [k |-> "fin", num |-> n, den |-> d]
Zero      == Fin(0, 1)

Sign(a) == IF a < 0 THEN -1 ELSE 1

\* a / b for an integer-valued double a and an int b converted to double
FDiv(a, b) ==
    IF b = 0 THEN (IF a = 0 THEN NaN ELSE Inf(Sign(a)))
    ELSE Fin(a, b)

----------------------------------------------------------------------------
(* vectors and the pseudo-random generator *)

Min(a, b) == IF a < b THEN a ELSE b

\* The i-th draw of uniform_real_distribution(0.0, 100.0) over mt19937(seed):
\* a fixed function of (seed, i) with values in [0, 100); past the first
\* MaxHead draws the stand-in stream yields 0.0.
Draw(seed, i) == IF i <= MaxHead THEN (seed * 17 + i * 29) % 100 ELSE 0

\* std::vector<double> v(n) filled with the first n draws of mt19937(seed)
GenerateVec(n, seed) ==
    [i \in 1 .. Min(n, MaxHead) |-> [cnt |-> 1, val |-> Draw(seed, i)]]
    \o (IF n > MaxHead
           THEN <<[cnt |-> n - MaxHead, val |-> Draw(seed, MaxHead + 1)]>>
           ELSE <<>>)

RECURSIVE VecSize(_)
VecSize(v) == IF v = <<>> THEN 0 ELSE v[1].cnt + VecSize(Tail(v))

generarValoresAleatorios(n, rank) == GenerateVec(n, rank + 42)

\* suma = 0.0; for (valor : valores) suma += valor
RECURSIVE calcularSumaParcial(_)
calcularSumaParcial(v) ==
    IF v = <<>> THEN 0
    ELSE calcularSumaParcial(SubSeq(v, 1, Len(v) - 1))
             + v[Len(v)].cnt * v[Len(v)].val

----------------------------------------------------------------------------
(* The collective-communication runtime *)

\* the order number of the next collective rank r calls
K(r) == cseq[r] + 1

WindowOk(r) == \A q \in Ranks : cseq[r] - cseq[q] < MaxAhead

OpMatches(k, op) ==
    IF k \in DOMAIN inflight THEN inflight[k].op = op ELSE TRUE

Deposit(k, op, r, v) ==
    IF k \in DOMAIN inflight
        THEN [inflight EXCEPT ![k].vals = (r :> v) @@ @]
        ELSE (k :> [op |-> op, vals |-> (r :> v)]) @@ inflight

\* forget the collectives every rank has left
Collect(cs, inf) ==
    [k \in {j \in DOMAIN inf : \E q \in Ranks : cs[q] < j} |-> inf[k]]

Arrived(k, q) ==
    IF k \in DOMAIN inflight THEN q \in DOMAIN inflight[k].vals ELSE FALSE

\* MPI_Bcast(&x, 1, type, 0, MPI_COMM_WORLD) can return at rank r
BcastEnabled(r, op) ==
    /\ WindowOk(r)
    /\ OpMatches(K(r), op)
    /\ IF r = 0 THEN TRUE ELSE Arrived(K(r), 0)

\* Faulty variant of BcastValue: the buffer of a receiver is left as it was.
BcastValueStale(r, v) == v

\* the value of x at rank r when MPI_Bcast returns (v: x before the call)
BcastValue(r, v) == IF r = 0 THEN v ELSE inflight[K(r)].vals[0]

BcastDone(r, op, v) ==
    LET cs == [cseq EXCEPT ![r] = K(r)]
    IN  /\ cseq' = cs
        /\ inflight' = Collect(cs, IF r = 0 THEN Deposit(K(r), op, 0, v)
                                            ELSE inflight)

\* MPI_Reduce(&v, &x, 1, type, MPI_SUM, 0, MPI_COMM_WORLD) can return at rank r
ReduceEnabled(r, op) ==
    /\ WindowOk(r)
    /\ OpMatches(K(r), op)
    /\ IF r = 0 THEN \A q \in Ranks \ {0} : Arrived(K(r), q) ELSE TRUE

RECURSIVE SumRanks(_, _)
SumRanks(f, S) ==
    IF S = {} THEN 0
    ELSE LET q == CHOOSE x \in S : \A y \in S : x <= y
         IN  f[q] + SumRanks(f, S \ {q})

\* the value of x at rank r when MPI_Reduce returns (v: contribution of r,
\* old: x before the call; the receive buffer is written at the root only)
ReduceValue(r, v, old) ==
    IF r = 0
        THEN v + (IF numProcs = 1 THEN 0
                  ELSE SumRanks(inflight[K(r)].vals, Ranks \ {0}))
        ELSE old

ReduceDone(r, op, v) ==
    LET cs == [cseq EXCEPT ![r] = K(r)]
    IN  /\ cseq' = cs
        /\ inflight' = Collect(cs, IF r # 0 THEN Deposit(K(r), op, r, v)
                                            ELSE inflight)

\* Faulty variant of AbortGroup: only the calling coordinator terminates.
AbortCoordinatorOnly(why) ==
    /\ aborted' = why
    /\ pc' = [pc EXCEPT ![0] = "killed"]

\* MPI_Abort(MPI_COMM_WORLD, 1): every process of the job is terminated
AbortGroup(why) ==
    /\ aborted' = why
    /\ pc' = [q \in Ranks |-> "killed"]

----------------------------------------------------------------------------
(* Positions *)

\* The MPI_Barrier call sites: <<label in the barrier, label after it>>
BarrierSites ==
    { <<"m_bar92", "m_aft92">>, <<"m_bar127", "m_aft127">>,
      <<"m_bar131", "m_aft131">>, <<"m_bar172", "m_aft172">>,
      <<"m_bar176", "m_aft176">>,
      <<"t_bar216", "t_aft216">>, <<"t_bar222", "t_aft222">>,
      <<"t_bar225", "t_aft225">>, <<"t_bar228", "t_aft228">>,
      <<"t_bar152", "t_aft152">>, <<"t_bar231", "t_aft231">>,
      <<"t_bar234", "t_aft234">>, <<"t_bar243", "t_aft243">>,
      <<"t_bar257", "t_aft257">>,
      <<"b_bar43", "b_aft43">>, <<"b_bar77", "b_aft77">>,
      <<"b_bar106", "b_aft106">> }
\* (analysis.cpp calls no barrier)

BarrierLabels == {s[1] : s \in BarrierSites}

\* the label a rank is at after leaving the barrier it is blocked in
AfterBarrier(l) == (CHOOSE s \in BarrierSites : s[1] = l)[2]

Say(r, what) == [rank |-> r, what |-> what]

\* An event of the trace of a rank.  kind is "barrier", "bcast" or "reduce"
\* (the collective has returned), "timer" (MPI_Wtime is read to start the
\* timer what), "print" (a console write) or "input" (std::cin is read).
Ev(kind, what) == [kind |-> kind, what |-> what]

\* events only the coordinator produces (code under if (rank == 0))
AtRoot(r, evs) == IF r = 0 THEN evs ELSE << >>

\* rank r goes through the events evs, in this order
Log(r, evs) == trace' = [trace EXCEPT ![r] = @ \o evs]

----------------------------------------------------------------------------
(* MPI_Barrier(MPI_COMM_WORLD): all ranks are in a barrier, as their next  *)
(* collective of the same order number, and all leave it.                  *)

\* Faulty variant of Barrier: a rank leaves the barrier without waiting for
\* the others.
BarrierNoWait ==
    \E r \in Ranks :
        /\ pc[r] \in BarrierLabels
        /\ pc' = [pc EXCEPT ![r] = AfterBarrier(pc[r])]
        /\ cseq' = [cseq EXCEPT ![r] = @ + 1]
        /\ trace' = IF prog = "benchmark" THEN trace
                     ELSE [trace EXCEPT ![r] = Append(@, Ev("barrier", pc[r]))]
        /\ UNCHANGED <<prog, numProcs, fault, inflight, aborted, locals>>

Barrier ==
    /\ \A r \in Ranks : pc[r] \in BarrierLabels
    /\ \A r \in Ranks : cseq[r] = cseq[0]
    /\ pc' = [r \in Ranks |-> AfterBarrier(pc[r])]
    /\ cseq' = [r \in Ranks |-> cseq[r] + 1]
    /\ trace' = IF prog = "benchmark" THEN trace
                 ELSE [r \in Ranks |-> Append(trace[r], Ev("barrier", pc[r]))]
    /\ UNCHANGED <<prog, numProcs, fault, inflight, aborted, locals>>

----------------------------------------------------------------------------
(* main.cpp *)

\* Faulty variant of InvalidN: zero is accepted.
InvalidNStrict(n) == n < 0

\* main.cpp:101  if (N <= 0)
InvalidN(n) == n <= 0

\* Faulty variant of MyTurn: the turns are taken in descending rank order.
MyTurnReversed(rank, i) == rank = numProcs - 1 - i

\* main.cpp:124, 166  if (rank == i)
MyTurn(rank, i) == rank = i

\* main.cpp:95-107: the root prints the banner, reads N and validates it
MainReadN(r) ==
    /\ prog = "main" /\ pc[r] = "m_aft92"
    /\ IF r = 0
          THEN \E n \in NInputs :
                 /\ N' = [N EXCEPT ![0] = n]
                 /\ IF InvalidN(n)
                       THEN /\ out' = out \o <<Say(0, "banner"), Say(0, "error")>>
                            /\ AbortGroup("MPI_Abort")
                       ELSE /\ out' = out \o <<Say(0, "banner"), Say(0, "distributing")>>
                            /\ pc' = [pc EXCEPT ![r] = "m_bcast111"]
                            /\ UNCHANGED aborted
          ELSE /\ pc' = [pc EXCEPT ![r] = "m_bcast111"]
               /\ UNCHANGED <<N, out, aborted>>
    /\ Log(r, AtRoot(r, <<Ev("print", "banner"), Ev("input", "N"),
                         Ev("print", IF InvalidN(N'[0]) THEN "error"
                                                         ELSE "distributing")>>))
    /\ UNCHANGED <<mainFrame, exitCode, cseq, inflight, valores, sumaParcial,
                   sumaTotal, promedioFinal, loopI>>

\* main.cpp:111-126: MPI_Bcast of N, data generation, partial sum, and the
\* first turn (i = 0) of the ordered-output loop
MainBcastN(r) ==
    /\ prog = "main" /\ pc[r] = "m_bcast111"
    /\ BcastEnabled(r, "bcast_int")
    /\ LET n == BcastValue(r, N[r])
           v == generarValoresAleatorios(n, r)
       IN  /\ N' = [N EXCEPT ![r] = n]
           /\ valores' = [valores EXCEPT ![r] = v]
           /\ sumaParcial' = [sumaParcial EXCEPT ![r] = calcularSumaParcial(v)]
    /\ BcastDone(r, "bcast_int", N[r])
    /\ loopI' = [loopI EXCEPT ![r] = 0]
    /\ out' = IF MyTurn(r, 0) THEN Append(out, Say(r, "info")) ELSE out
    /\ pc' = [pc EXCEPT ![r] = "m_bar127"]
    /\ Log(r, <<Ev("bcast", "N"), Ev("timer", "generacion")>>
              \o (IF MyTurn(r, 0) THEN <<Ev("print", "info")>> ELSE << >>))
    /\ UNCHANGED <<mainFrame, exitCode, aborted, sumaTotal, promedioFinal>>

\* main.cpp:123-128: after the barrier of turn i, ++i and the next turn, or
\* the end of the loop and the barrier of line 131
MainInfoLoop(r) ==
    /\ prog = "main" /\ pc[r] = "m_aft127"
    /\ LET i == loopI[r] + 1
       IN  /\ loopI' = [loopI EXCEPT ![r] = i]
           /\ IF i < numProcs
                 THEN /\ out' = IF MyTurn(r, i) THEN Append(out, Say(r, "info"))
                                                 ELSE out
                      /\ pc' = [pc EXCEPT ![r] = "m_bar127"]
                 ELSE /\ out' = out
                      /\ pc' = [pc EXCEPT ![r] = "m_bar131"]
    /\ Log(r, IF loopI'[r] < numProcs /\ MyTurn(r, loopI'[r])
                 THEN <<Ev("print", "info")>> ELSE << >>)
    /\ UNCHANGED <<mainFrame, exitCode, mpiVars, N, valores, sumaParcial,
                   sumaTotal, promedioFinal>>

\* main.cpp:134: the reduction timer starts, MPI_Reduce is called
MainStartReduce(r) ==
    /\ prog = "main" /\ pc[r] = "m_aft131"
    /\ pc' = [pc EXCEPT ![r] = "m_reduce138"]
    /\ Log(r, <<Ev("timer", "reduccion")>>)
    /\ UNCHANGED <<mainFrame, exitCode, mpiVars, mainVars>>

\* main.cpp:138-152: MPI_Reduce returns; the root computes and prints the
\* average
MainReduce(r) ==
    /\ prog = "main" /\ pc[r] = "m_reduce138"
    /\ ReduceEnabled(r, "reduce_double")
    /\ LET total == ReduceValue(r, sumaParcial[r], sumaTotal[r])
       IN  /\ sumaTotal' = [sumaTotal EXCEPT ![r] = total]
           /\ IF r = 0
                 THEN \E d \in IntMul(N[r], numProcs) :
                        IF d.trap
                           THEN /\ AbortGroup("SIGABRT")
                                /\ UNCHANGED <<promedioFinal, out>>
                           ELSE /\ promedioFinal' =
                                      [promedioFinal EXCEPT ![r] = FDiv(total, d.val)]
                                /\ out' = Append(out, Say(r, "results"))
                                /\ pc' = [pc EXCEPT ![r] = "m_bcast159"]
                                /\ UNCHANGED aborted
                 ELSE /\ pc' = [pc EXCEPT ![r] = "m_bcast159"]
                      /\ UNCHANGED <<promedioFinal, out, aborted>>
    /\ ReduceDone(r, "reduce_double", sumaParcial[r])
    /\ Log(r, <<Ev("reduce", "sumaParcial")>>
              \o AtRoot(r, IF aborted' = "SIGABRT" THEN << >>
                                                   ELSE <<Ev("print", "results")>>))
    /\ UNCHANGED <<mainFrame, exitCode, N, valores, sumaParcial, loopI>>

\* main.cpp:159-171: MPI_Bcast of the average, and the first turn (i = 0) of
\* the second ordered-output loop
MainBcastAvg(r) ==
    /\ prog = "main" /\ pc[r] = "m_bcast159"
    /\ BcastEnabled(r, "bcast_double")
    /\ promedioFinal' =
          [promedioFinal EXCEPT ![r] = BcastValue(r, promedioFinal[r])]
    /\ BcastDone(r, "bcast_double", promedioFinal[r])
    /\ loopI' = [loopI EXCEPT ![r] = 0]
    /\ out' = IF MyTurn(r, 0) THEN Append(out, Say(r, "received")) ELSE out
    /\ pc' = [pc EXCEPT ![r] = "m_bar172"]
    /\ Log(r, <<Ev("timer", "broadcast"), Ev("bcast", "promedioFinal")>>
              \o (IF MyTurn(r, 0) THEN <<Ev("print", "received")>> ELSE << >>))
    /\ UNCHANGED <<mainFrame, exitCode, aborted, N, valores, sumaParcial, sumaTotal>>

\* main.cpp:165-173
MainAvgLoop(r) ==
    /\ prog = "main" /\ pc[r] = "m_aft172"
    /\ LET i == loopI[r] + 1
       IN  /\ loopI' = [loopI EXCEPT ![r] = i]
           /\ IF i < numProcs
                 THEN /\ out' = IF MyTurn(r, i) THEN Append(out, Say(r, "received"))
                                                 ELSE out
                      /\ pc' = [pc EXCEPT ![r] = "m_bar172"]
                 ELSE /\ out' = out
                      /\ pc' = [pc EXCEPT ![r] = "m_bar176"]
    /\ Log(r, IF loopI'[r] < numProcs /\ MyTurn(r, loopI'[r])
                 THEN <<Ev("print", "received")>> ELSE << >>)
    /\ UNCHANGED <<mainFrame, exitCode, mpiVars, N, valores, sumaParcial,
                   sumaTotal, promedioFinal>>

\* main.cpp:178-191: the root prints the summary; MPI_Finalize; return 0
MainFinish(r) ==
    /\ prog = "main" /\ pc[r] = "m_aft176"
    /\ out' = IF r = 0 THEN Append(out, Say(r, "summary")) ELSE out
    /\ pc' = [pc EXCEPT ![r] = "done"]
    /\ exitCode' = [exitCode EXCEPT ![r] = 0]
    /\ Log(r, AtRoot(r, <<Ev("print", "summary")>>))
    /\ UNCHANGED <<mainFrame, mpiVars, N, valores, sumaParcial,
                   sumaTotal, promedioFinal, loopI>>

----------------------------------------------------------------------------
(* arithmetic on quotient doubles *)

Abs(a) == IF a < 0 THEN -a ELSE a

\* an integer-valued double as a quotient
FInt(a) == Fin(a, 1)

FSub(x, y) ==
    IF x.k = "fin" /\ y.k = "fin"
        THEN Fin(x.num * y.den - y.num * x.den, x.den * y.den)
        ELSE NaN

\* std::abs
FAbs(x) == IF x.k = "fin" THEN Fin(Abs(x.num), Abs(x.den)) ELSE x

\* x < 1e-10 for a non-negative quotient x.  Every denominator of the model is
\* an int, so below 10^10 in magnitude: a quotient with a non-zero numerator
\* is above 1e-10, and NaN compares false.
BelowTolerance(x) == x.k = "fin" /\ x.num = 0

\* x <= y on quotients (false when either is NaN)
FLeq(x, y) ==
    /\ x.k = "fin" /\ y.k = "fin"
    /\ x.num * y.den * Sign(x.den) * Sign(y.den)
          <= y.num * x.den * Sign(x.den) * Sign(y.den)

----------------------------------------------------------------------------
(* test.cpp *)

valorOriginal == 42

\* the check of the test a rank is in comes out false whatever was computed
Failed(r) == fault[r] = Len(checks[r]) + 1

\* test.cpp:221-233  todasLasPruebasPasan &= test...(rank, numProcs)
Check(r, resultado) ==
    /\ checks' = [checks EXCEPT ![r] = Append(@, resultado /\ ~Failed(r))]
    /\ todasLasPruebasPasan' =
          [todasLasPruebasPasan EXCEPT ![r] = @ /\ resultado /\ ~Failed(r)]

\* test.cpp:218-36: todasLasPruebasPasan = true; testBroadcast up to MPI_Bcast
TestBroadcastStart(r) ==
    /\ prog = "test" /\ pc[r] = "t_aft216"
    /\ todasLasPruebasPasan' = [todasLasPruebasPasan EXCEPT ![r] = TRUE]
    /\ valorRecibido' = [valorRecibido EXCEPT ![r] =
                            IF r = 0 THEN valorOriginal ELSE 0]
    /\ pc' = [pc EXCEPT ![r] = "t_bcast39"]
    /\ Log(r, <<Ev("print", "testBroadcast")>>)
    /\ UNCHANGED <<testFrame, exitCode, cseq, inflight, checks, resultadoTotal,
                   N, valores, sumaParcial, sumaTotal, promedioFinal>>

\* test.cpp:39-47, 221
TestBroadcast(r) ==
    /\ prog = "test" /\ pc[r] = "t_bcast39"
    /\ BcastEnabled(r, "bcast_int")
    /\ LET v == BcastValue(r, valorRecibido[r])
       IN  /\ valorRecibido' = [valorRecibido EXCEPT ![r] = v]
           /\ Check(r, v = valorOriginal)
    /\ BcastDone(r, "bcast_int", valorRecibido[r])
    /\ pc' = [pc EXCEPT ![r] = "t_bar222"]
    /\ Log(r, <<Ev("bcast", "valorRecibido"), Ev("print", "valor recibido")>>)
    /\ UNCHANGED <<testFrame, exitCode, resultadoTotal,
                   N, valores, sumaParcial, sumaTotal, promedioFinal>>

\* test.cpp:63-66  sumaEsperada += (i + 1) for i in [0, numProcs)
RECURSIVE TestReduceSumaEsperada(_)
TestReduceSumaEsperada(n) ==
    IF n = 0 THEN 0 ELSE TestReduceSumaEsperada(n - 1) + ((n - 1) + 1)

\* Faulty variant of TestReduceValorLocal: the rank itself is contributed.
ValorLocalRank(rank) == rank

\* test.cpp:59  valorLocal = static_cast<double>(rank + 1)
TestReduceValorLocal(rank) == rank + 1

\* test.cpp:57-66: testReduce up to MPI_Reduce
TestReduceStart(r) ==
    /\ prog = "test" /\ pc[r] = "t_aft222"
    /\ sumaParcial' = [sumaParcial EXCEPT ![r] = TestReduceValorLocal(r)]
    /\ sumaTotal' = [sumaTotal EXCEPT ![r] = 0]
    /\ pc' = [pc EXCEPT ![r] = "t_reduce69"]
    /\ Log(r, <<Ev("print", "testReduce")>>)
    /\ UNCHANGED <<testFrame, exitCode, cseq, inflight, testVars,
                   N, valores, promedioFinal>>

\* test.cpp:69-78, 224
TestReduce(r) ==
    /\ prog = "test" /\ pc[r] = "t_reduce69"
    /\ ReduceEnabled(r, "reduce_double")
    /\ LET total == ReduceValue(r, sumaParcial[r], sumaTotal[r])
           sumaEsperada == TestReduceSumaEsperada(numProcs)
       IN  /\ sumaTotal' = [sumaTotal EXCEPT ![r] = total]
           /\ Check(r, IF r = 0
                          THEN BelowTolerance(FAbs(FSub(FInt(total),
                                                        FInt(sumaEsperada))))
                          ELSE TRUE)
    /\ ReduceDone(r, "reduce_double", sumaParcial[r])
    /\ pc' = [pc EXCEPT ![r] = "t_bar225"]
    /\ Log(r, <<Ev("reduce", "valorLocal")>> \o AtRoot(r, <<Ev("print", "suma total")>>))
    /\ UNCHANGED <<testFrame, exitCode, valorRecibido, resultadoTotal,
                   N, valores, sumaParcial, promedioFinal>>

\* test.cpp:91  std::vector<double> valores = {1.0, 2.0, 3.0, 4.0, 5.0}
TestPromedioValores ==
    [i \in 1 .. 5 |-> [cnt |-> 1, val |-> i]]

\* Faulty variant of TestPromedioSumaParcial: the per-rank offset is lost.
SumaParcialSinOffset(rank, v) == calcularSumaParcial(v)

\* test.cpp:94-101  the sum of valores, plus rank * N * 10.0
TestPromedioSumaParcial(rank, v) ==
    calcularSumaParcial(v) + rank * VecSize(v) * 10

\* test.cpp:114-122  the expected total, summed over i in [0, numProcs)
RECURSIVE TestPromedioSumaEsperada(_, _)
TestPromedioSumaEsperada(n, v) ==
    IF n = 0 THEN 0
    ELSE TestPromedioSumaEsperada(n - 1, v)
            + (calcularSumaParcial(v) + (n - 1) * VecSize(v) * 10)

\* test.cpp:88-104: testPromedio up to MPI_Reduce
TestPromedioStart(r) ==
    /\ prog = "test" /\ pc[r] = "t_aft225"
    /\ valores' = [valores EXCEPT ![r] = TestPromedioValores]
    /\ N' = [N EXCEPT ![r] = VecSize(TestPromedioValores)]
    /\ sumaParcial' = [sumaParcial EXCEPT ![r] =
                          TestPromedioSumaParcial(r, TestPromedioValores)]
    /\ sumaTotal' = [sumaTotal EXCEPT ![r] = 0]
    /\ promedioFinal' = [promedioFinal EXCEPT ![r] = Zero]
    /\ pc' = [pc EXCEPT ![r] = "t_reduce107"]
    /\ Log(r, <<Ev("print", "testPromedio")>>)
    /\ UNCHANGED <<testFrame, exitCode, cseq, inflight, testVars>>

\* test.cpp:107-132, 227
TestPromedio(r) ==
    /\ prog = "test" /\ pc[r] = "t_reduce107"
    /\ ReduceEnabled(r, "reduce_double")
    /\ LET total == ReduceValue(r, sumaParcial[r], sumaTotal[r])
           divisor == N[r] * numProcs
           promedio == FDiv(total, divisor)
           promedioEsperado ==
               FDiv(TestPromedioSumaEsperada(numProcs, valores[r]), divisor)
       IN  /\ sumaTotal' = [sumaTotal EXCEPT ![r] = total]
           /\ IF r = 0
                 THEN /\ promedioFinal' = [promedioFinal EXCEPT ![r] = promedio]
                      /\ Check(r, BelowTolerance(
                                      FAbs(FSub(promedio, promedioEsperado))))
                 ELSE /\ UNCHANGED promedioFinal
                      /\ Check(r, TRUE)
    /\ ReduceDone(r, "reduce_double", sumaParcial[r])
    /\ pc' = [pc EXCEPT ![r] = "t_bar228"]
    /\ Log(r, <<Ev("reduce", "sumaParcial")>> \o AtRoot(r, <<Ev("print", "promedio")>>))
    /\ UNCHANGED <<testFrame, exitCode, valorRecibido, resultadoTotal,
                   N, valores, sumaParcial>>

\* test.cpp:142-152: testSincronizacion up to MPI_Barrier
TestSincronizacionStart(r) ==
    /\ prog = "test" /\ pc[r] = "t_aft228"
    /\ pc' = [pc EXCEPT ![r] = "t_bar152"]
    /\ Log(r, <<Ev("print", "testSincronizacion")>>)
    /\ UNCHANGED <<testFrame, exitCode, cseq, inflight, testVars,
                   N, valores, sumaParcial, sumaTotal, promedioFinal>>

\* test.cpp:155-157, 230
TestSincronizacion(r) ==
    /\ prog = "test" /\ pc[r] = "t_aft152"
    /\ Check(r, TRUE)
    /\ pc' = [pc EXCEPT ![r] = "t_bar231"]
    /\ Log(r, <<Ev("print", "sincronizacion completada")>>)
    /\ UNCHANGED <<testFrame, exitCode, cseq, inflight, valorRecibido,
                   resultadoTotal, N, valores, sumaParcial, sumaTotal,
                   promedioFinal>>

\* test.cpp:169  int N = 100
TestCompletoN == 100

\* test.cpp:167-182: testProgramaCompleto up to MPI_Reduce
TestCompletoStart(r) ==
    /\ prog = "test" /\ pc[r] = "t_aft231"
    /\ LET v == GenerateVec(TestCompletoN, r + 42)
       IN  /\ valores' = [valores EXCEPT ![r] = v]
           /\ sumaParcial' = [sumaParcial EXCEPT ![r] = calcularSumaParcial(v)]
    /\ N' = [N EXCEPT ![r] = TestCompletoN]
    /\ sumaTotal' = [sumaTotal EXCEPT ![r] = 0]
    /\ promedioFinal' = [promedioFinal EXCEPT ![r] = Zero]
    /\ pc' = [pc EXCEPT ![r] = "t_reduce185"]
    /\ Log(r, <<Ev("print", "testProgramaCompleto")>>)
    /\ UNCHANGED <<testFrame, exitCode, cseq, inflight, testVars>>

\* test.cpp:185-199, 233
TestCompleto(r) ==
    /\ prog = "test" /\ pc[r] = "t_reduce185"
    /\ ReduceEnabled(r, "reduce_double")
    /\ LET total == ReduceValue(r, sumaParcial[r], sumaTotal[r])
           promedio == FDiv(total, N[r] * numProcs)
       IN  /\ sumaTotal' = [sumaTotal EXCEPT ![r] = total]
           /\ IF r = 0
                 THEN /\ promedioFinal' = [promedioFinal EXCEPT ![r] = promedio]
                      /\ Check(r, FLeq(FInt(0), promedio)
                                     /\ FLeq(promedio, FInt(100)))
                 ELSE /\ UNCHANGED promedioFinal
                      /\ Check(r, TRUE)
    /\ ReduceDone(r, "reduce_double", sumaParcial[r])
    /\ pc' = [pc EXCEPT ![r] = "t_bar234"]
    /\ Log(r, <<Ev("reduce", "sumaParcial")>> \o AtRoot(r, <<Ev("print", "promedio final")>>))
    /\ UNCHANGED <<testFrame, exitCode, valorRecibido, resultadoTotal,
                   N, valores, sumaParcial>>

\* test.cpp:237-238: resultadoGlobal, resultadoTotal = 0, up to MPI_Reduce
TestResultStart(r) ==
    /\ prog = "test" /\ pc[r] = "t_aft234"
    /\ resultadoTotal' = [resultadoTotal EXCEPT ![r] = 0]
    /\ pc' = [pc EXCEPT ![r] = "t_reduce240"]
    /\ Log(r, << >>)
    /\ UNCHANGED <<testFrame, exitCode, cseq, inflight, valorRecibido, checks,
                   todasLasPruebasPasan, N, valores, sumaParcial, sumaTotal,
                   promedioFinal>>

\* Faulty variant of resultadoGlobal: every participant reports success.
resultadoGlobalAlways(r) == 1

\* test.cpp:237  int resultadoGlobal = todasLasPruebasPasan ? 1 : 0
resultadoGlobal(r) == IF todasLasPruebasPasan[r] THEN 1 ELSE 0

\* test.cpp:240
TestResultReduce(r) ==
    /\ prog = "test" /\ pc[r] = "t_reduce240"
    /\ ReduceEnabled(r, "reduce_int")
    /\ resultadoTotal' = [resultadoTotal EXCEPT ![r] =
                             ReduceValue(r, resultadoGlobal(r), @)]
    /\ ReduceDone(r, "reduce_int", resultadoGlobal(r))
    /\ pc' = [pc EXCEPT ![r] = "t_bar243"]
    /\ Log(r, <<Ev("reduce", "resultadoGlobal")>>)
    /\ UNCHANGED <<testFrame, exitCode, valorRecibido, checks,
                   todasLasPruebasPasan, N, valores, sumaParcial, sumaTotal,
                   promedioFinal>>

\* test.cpp:245-254: the root prints the verdict
TestReport(r) ==
    /\ prog = "test" /\ pc[r] = "t_aft243"
    /\ pc' = [pc EXCEPT ![r] = "t_bar257"]
    /\ Log(r, AtRoot(r, <<Ev("print", "resultados")>>))
    /\ UNCHANGED <<testFrame, exitCode, cseq, inflight, testVars,
                   N, valores, sumaParcial, sumaTotal, promedioFinal>>

\* test.cpp:261  return (resultadoTotal == numProcs) ? 0 : 1
TestExitCode(total, size) == IF total = size THEN 0 ELSE 1

\* test.cpp:259-261: MPI_Finalize and the return of main
TestFinish(r) ==
    /\ prog = "test" /\ pc[r] = "t_aft257"
    /\ exitCode' = [exitCode EXCEPT ![r] =
                       TestExitCode(resultadoTotal[r], numProcs)]
    /\ pc' = [pc EXCEPT ![r] = "done"]
    /\ Log(r, << >>)
    /\ UNCHANGED <<testFrame, cseq, inflight, testVars,
                   N, valores, sumaParcial, sumaTotal, promedioFinal>>

----------------------------------------------------------------------------
(* more arithmetic on quotient doubles *)

\* x * n for an int n
FMulInt(x, n) == IF x.k = "fin" THEN Fin(x.num * n, x.den) ELSE x

FAdd(x, y) ==
    IF x.k = "fin" /\ y.k = "fin"
        THEN Fin(x.num * y.den + y.num * x.den, x.den * y.den)
    ELSE IF x.k = "nan" \/ y.k = "nan" THEN NaN
    ELSE IF x.k = "inf" /\ y.k = "inf" /\ x.sign # y.sign THEN NaN
    ELSE IF x.k = "inf" THEN x ELSE y

\* x == n for an int n
FEqInt(x, n) == x.k = "fin" /\ x.num = n * x.den

----------------------------------------------------------------------------
(* analysis.cpp *)

Durations == 0 .. MaxDur

AnaInit ==
    [data |-> << >>, localSum |-> 0, globalSum |-> 0, avg |-> Zero,
     totalElements |-> 0, threw |-> FALSE, iter |-> 0, roundSums |-> << >>,
     sizeIdx |-> 0, compTime |-> 0, commTime |-> 0,
     compRatio |-> Zero, commRatio |-> Zero]

\* analysis.cpp:315  strongScalingAnalysis(10000, 16, rank, numProcs)
StrongN == 10000
\* analysis.cpp:318  weakScalingAnalysis(1000, rank, numProcs)
WeakNPerProc == 1000
\* analysis.cpp:173  std::vector<double> largeData(1000000)
LargeDataSize == 1000000
\* analysis.cpp:203  std::vector<double> data(1000)
Test2DataSize == 1000
\* analysis.cpp:211  for (iter = 0; iter < 10; ++iter)
Test2Rounds == 10
\* analysis.cpp:258  problemSizes
problemSizes == <<100, 1000, 10000, 100000>>

\* analysis.cpp:67-70
ElementsPerProc(n, procs) ==
    IF n % procs # 0 THEN (n \div procs) + 1 ELSE n \div procs

\* analysis.cpp:60-89: strongScalingAnalysis up to MPI_Reduce
AnaStrongStart(r) ==
    /\ prog = "analysis" /\ pc[r] = "a_begin"
    /\ LET d == GenerateVec(ElementsPerProc(StrongN, numProcs), r + 42)
       IN  ana' = [ana EXCEPT ![r] = [@ EXCEPT !.data = d,
                                        !.localSum = calcularSumaParcial(d),
                                        !.globalSum = 0]]
    /\ pc' = [pc EXCEPT ![r] = "a_reduce90"]
    /\ Log(r, AtRoot(r, <<Ev("print", "analysis"), Ev("print", "system info"),
                         Ev("print", "strong scaling")>>)
              \o <<Ev("timer", "strong")>>)
    /\ UNCHANGED <<anaFrame, cseq, inflight, out, exitCode>>

\* analysis.cpp:90-104
AnaStrongReduce(r) ==
    /\ prog = "analysis" /\ pc[r] = "a_reduce90"
    /\ ReduceEnabled(r, "reduce_double")
    /\ LET g == ReduceValue(r, ana[r].localSum, ana[r].globalSum)
       IN  ana' = [ana EXCEPT ![r] = [@ EXCEPT !.globalSum = g,
                      !.avg = IF r = 0 THEN FDiv(g, StrongN) ELSE @]]
    /\ ReduceDone(r, "reduce_double", ana[r].localSum)
    /\ pc' = [pc EXCEPT ![r] = "a_weak"]
    /\ Log(r, <<Ev("reduce", "localSum")>> \o AtRoot(r, <<Ev("print", "strong result")>>))
    /\ UNCHANGED <<anaFrame, out, exitCode>>

\* analysis.cpp:114-137: weakScalingAnalysis up to MPI_Reduce
AnaWeakStart(r) ==
    /\ prog = "analysis" /\ pc[r] = "a_weak"
    /\ LET d == GenerateVec(WeakNPerProc, r + 42)
       IN  ana' = [ana EXCEPT ![r] = [@ EXCEPT !.data = d,
                                        !.localSum = calcularSumaParcial(d),
                                        !.globalSum = 0]]
    /\ pc' = [pc EXCEPT ![r] = "a_reduce138"]
    /\ Log(r, AtRoot(r, <<Ev("print", "weak scaling")>>) \o <<Ev("timer", "weak")>>)
    /\ UNCHANGED <<anaFrame, cseq, inflight, out, exitCode>>

\* analysis.cpp:138-154
AnaWeakReduce(r) ==
    /\ prog = "analysis" /\ pc[r] = "a_reduce138"
    /\ ReduceEnabled(r, "reduce_double")
    /\ LET g == ReduceValue(r, ana[r].localSum, ana[r].globalSum)
           total == WeakNPerProc * numProcs
       IN  ana' = [ana EXCEPT ![r] = [@ EXCEPT !.globalSum = g,
                      !.totalElements = IF r = 0 THEN total ELSE @,
                      !.avg = IF r = 0 THEN FDiv(g, total) ELSE @]]
    /\ ReduceDone(r, "reduce_double", ana[r].localSum)
    /\ pc' = [pc EXCEPT ![r] = "a_robust"]
    /\ Log(r, <<Ev("reduce", "localSum")>> \o AtRoot(r, <<Ev("print", "weak result")>>))
    /\ UNCHANGED <<anaFrame, out, exitCode>>

\* analysis.cpp:203-215: the data of Test 2 and the local sum of its first round
AnaTest2Data(r) == GenerateVec(Test2DataSize, r + 42)

\* Faulty variant of Test2LocalSum: localSum is not reset between rounds.
Test2LocalSumCarried(prev, d) == prev + calcularSumaParcial(d)

\* analysis.cpp:212-215  double localSum = 0.0; for (val : data) localSum += val
Test2LocalSum(prev, d) == calcularSumaParcial(d)

\* analysis.cpp:163-186, 192-215: robustnessTest, Test 1 up to its MPI_Reduce.
\* The allocation of largeData may throw std::bad_alloc; the catch block then
\* leaves the try block, and the rank goes on with Test 2.
AnaTest1Start(r) ==
    /\ prog = "analysis" /\ pc[r] = "a_robust"
    /\ \E throws \in BOOLEAN :
         IF throws
            THEN /\ ana' = [ana EXCEPT ![r] = [@ EXCEPT !.threw = TRUE,
                               !.data = AnaTest2Data(r),
                               !.localSum = Test2LocalSum(0, AnaTest2Data(r)),
                               !.globalSum = 0,
                               !.iter = 0]]
                 /\ out' = IF r = 0
                              THEN out \o <<Say(r, "test1 failed"), Say(r, "test2")>>
                              ELSE out
                 /\ pc' = [pc EXCEPT ![r] = "a_reduce218"]
            ELSE /\ LET d == GenerateVec(LargeDataSize, r + 42)
                    IN  ana' = [ana EXCEPT ![r] = [@ EXCEPT !.data = d,
                                   !.localSum = calcularSumaParcial(d),
                                   !.globalSum = 0]]
                 /\ out' = out
                 /\ pc' = [pc EXCEPT ![r] = "a_reduce187"]
    /\ Log(r, AtRoot(r, <<Ev("print", "robustness"), Ev("print", "test1")>>
                         \o (IF ana'[r].threw
                                THEN <<Ev("print", "test1 failed"),
                                       Ev("print", "test2")>>
                                ELSE << >>)))
    /\ UNCHANGED <<anaFrame, cseq, inflight, exitCode>>

\* analysis.cpp:187-215: the MPI_Reduce of Test 1, then Test 2 up to the
\* MPI_Reduce of its first round
AnaTest1Reduce(r) ==
    /\ prog = "analysis" /\ pc[r] = "a_reduce187"
    /\ ReduceEnabled(r, "reduce_double")
    /\ ana' = [ana EXCEPT ![r] = [@ EXCEPT
                  !.data = AnaTest2Data(r),
                  !.localSum = Test2LocalSum(0, AnaTest2Data(r)),
                  !.globalSum = 0,
                  !.iter = 0]]
    /\ ReduceDone(r, "reduce_double", ana[r].localSum)
    /\ out' = IF r = 0 THEN out \o <<Say(r, "test1 ok"), Say(r, "test2")>>
                       ELSE out
    /\ pc' = [pc EXCEPT ![r] = "a_reduce218"]
    /\ Log(r, <<Ev("reduce", "localSum")>>
              \o AtRoot(r, <<Ev("print", "test1 ok"), Ev("print", "test2")>>))
    /\ UNCHANGED <<anaFrame, exitCode>>

\* analysis.cpp:218
AnaTest2Reduce(r) ==
    /\ prog = "analysis" /\ pc[r] = "a_reduce218"
    /\ ReduceEnabled(r, "reduce_double")
    /\ ana' = [ana EXCEPT ![r] = [@ EXCEPT !.globalSum =
                  ReduceValue(r, ana[r].localSum, ana[r].globalSum)]]
    /\ ReduceDone(r, "reduce_double", ana[r].localSum)
    /\ pc' = [pc EXCEPT ![r] = "a_bcast220"]
    /\ Log(r, <<Ev("reduce", "localSum")>>)
    /\ UNCHANGED <<anaFrame, out, exitCode>>

\* analysis.cpp:220-233: MPI_Bcast of globalSum, ++iter, and either the next
\* round up to its MPI_Reduce or Test 3 up to its MPI_Reduce
AnaTest2Bcast(r) ==
    /\ prog = "analysis" /\ pc[r] = "a_bcast220"
    /\ BcastEnabled(r, "bcast_double")
    /\ LET g == BcastValue(r, ana[r].globalSum)
           i == ana[r].iter + 1
       IN  IF i < Test2Rounds
              THEN /\ ana' = [ana EXCEPT ![r] = [@ EXCEPT
                                 !.roundSums = Append(@, g),
                                 !.iter = i,
                                 !.localSum = Test2LocalSum(ana[r].localSum,
                                                            ana[r].data),
                                 !.globalSum = 0]]
                   /\ out' = out
                   /\ pc' = [pc EXCEPT ![r] = "a_reduce218"]
              ELSE /\ ana' = [ana EXCEPT ![r] = [@ EXCEPT
                                 !.roundSums = Append(@, g),
                                 !.iter = i,
                                 !.globalSum = 0]]
                   /\ out' = IF r = 0
                                THEN out \o <<Say(r, "test2 ok"), Say(r, "test3")>>
                                ELSE out
                   /\ pc' = [pc EXCEPT ![r] = "a_reduce235"]
    /\ BcastDone(r, "bcast_double", ana[r].globalSum)
    /\ Log(r, <<Ev("bcast", "globalSum")>>
              \o (IF ana'[r].iter < Test2Rounds THEN << >>
                  ELSE AtRoot(r, <<Ev("print", "test2 ok"), Ev("print", "test3")>>)))
    /\ UNCHANGED <<anaFrame, exitCode>>

\* analysis.cpp:232  int localValue = rank + 1
Test3LocalValue(rank) == rank + 1

\* analysis.cpp:238  int expectedSum = (numProcs * (numProcs + 1)) / 2
Test3ExpectedSum(procs) == (procs * (procs + 1)) \div 2

\* analysis.cpp:235-245
AnaTest3Reduce(r) ==
    /\ prog = "analysis" /\ pc[r] = "a_reduce235"
    /\ ReduceEnabled(r, "reduce_int")
    /\ LET g == ReduceValue(r, Test3LocalValue(r), ana[r].globalSum)
       IN  /\ ana' = [ana EXCEPT ![r] = [@ EXCEPT !.globalSum = g]]
           /\ out' = IF r # 0 THEN out
                     ELSE IF g = Test3ExpectedSum(numProcs)
                             THEN Append(out, Say(r, "test3 ok"))
                             ELSE Append(out, Say(r, "test3 failed"))
    /\ ReduceDone(r, "reduce_int", Test3LocalValue(r))
    /\ pc' = [pc EXCEPT ![r] = "a_comm"]
    /\ Log(r, <<Ev("reduce", "localValue")>> \o AtRoot(r, <<Ev("print", "test3 result")>>))
    /\ UNCHANGED <<anaFrame, exitCode>>

\* analysis.cpp:260-276: one round of communicationVsComputationAnalysis up
\* to its MPI_Reduce.  Only the root reads the measured times.
CommRound(r, a, idx, comp) ==
    LET d == GenerateVec(problemSizes[idx], r + 42)
    IN  [a EXCEPT !.sizeIdx = idx,
                  !.data = d,
                  !.localSum = calcularSumaParcial(d),
                  !.globalSum = 0,
                  !.compTime = IF r = 0 THEN comp ELSE 0]

AnaCommStart(r) ==
    /\ prog = "analysis" /\ pc[r] = "a_comm"
    /\ \E comp \in Durations :
          ana' = [ana EXCEPT ![r] = CommRound(r, @, 1, comp)]
    /\ pc' = [pc EXCEPT ![r] = "a_reduce281"]
    /\ Log(r, AtRoot(r, <<Ev("print", "comm vs comp")>>)
              \o <<Ev("timer", "comp"), Ev("timer", "comm")>>)
    /\ UNCHANGED <<anaFrame, cseq, inflight, out, exitCode>>

\* analysis.cpp:287-288  (t / totalTime) * 100
Ratio(t, totalTime) == FMulInt(FDiv(t, totalTime), 100)

\* analysis.cpp:281-295
AnaCommReduce(r) ==
    /\ prog = "analysis" /\ pc[r] = "a_reduce281"
    /\ ReduceEnabled(r, "reduce_double")
    /\ \E comm \in Durations :
         LET g == ReduceValue(r, ana[r].localSum, ana[r].globalSum)
             totalTime == ana[r].compTime + comm
         IN  ana' = [ana EXCEPT ![r] =
                       IF r = 0
                          THEN [@ EXCEPT !.globalSum = g,
                                         !.commTime = comm,
                                         !.compRatio = Ratio(ana[r].compTime, totalTime),
                                         !.commRatio = Ratio(comm, totalTime)]
                          ELSE [@ EXCEPT !.globalSum = g]]
    /\ ReduceDone(r, "reduce_double", ana[r].localSum)
    /\ pc' = [pc EXCEPT ![r] = "a_commnext"]
    /\ Log(r, <<Ev("reduce", "localSum")>> \o AtRoot(r, <<Ev("print", "ratios")>>))
    /\ UNCHANGED <<anaFrame, out, exitCode>>

\* analysis.cpp:260, 326-332: the next problem size, or the end of main
AnaCommNext(r) ==
    /\ prog = "analysis" /\ pc[r] = "a_commnext"
    /\ IF ana[r].sizeIdx < Len(problemSizes)
          THEN /\ \E comp \in Durations :
                     ana' = [ana EXCEPT ![r] =
                                CommRound(r, @, ana[r].sizeIdx + 1, comp)]
               /\ pc' = [pc EXCEPT ![r] = "a_reduce281"]
               /\ UNCHANGED exitCode
          ELSE /\ pc' = [pc EXCEPT ![r] = "done"]
               /\ exitCode' = [exitCode EXCEPT ![r] = 0]
               /\ UNCHANGED ana
    /\ Log(r, IF pc'[r] = "done" THEN AtRoot(r, <<Ev("print", "completed")>>)
                 ELSE <<Ev("timer", "comp"), Ev("timer", "comm")>>)
    /\ UNCHANGED <<anaFrame, cseq, inflight, out>>

----------------------------------------------------------------------------
(* benchmark.cpp *)

\* std::vector<double> v(n): n elements 0.0
ZeroVec(n) ==
    [i \in 1 .. Min(n, MaxHead) |-> [cnt |-> 1, val |-> 0]]
    \o (IF n > MaxHead THEN <<[cnt |-> n - MaxHead, val |-> 0]>> ELSE <<>>)

\* the element-wise sum of two vectors of the same length
VecAdd(a, b) == [i \in 1 .. Len(a) |-> [cnt |-> a[i].cnt,
                                        val |-> a[i].val + b[i].val]]

RECURSIVE SumRanksVec(_, _, _)
SumRanksVec(f, S, acc) ==
    IF S = {} THEN acc
    ELSE LET q == CHOOSE x \in S : \A y \in S : x <= y
         IN  SumRanksVec(f, S \ {q}, VecAdd(acc, f[q]))

\* the receive buffer at rank r when MPI_Reduce of a vector returns
ReduceVecValue(r, v, old) ==
    IF r = 0
        THEN IF numProcs = 1 THEN v
             ELSE SumRanksVec(inflight[K(r)].vals, Ranks \ {0}, v)
        ELSE old

\* benchmark.cpp:178
dataSizes == <<1, 10, 100, 1000, 10000>>
\* benchmark.cpp:179
NValues == <<100, 1000, 10000>>
\* benchmark.cpp:180
numIterations == 100

\* benchmark.cpp:175
Header == "Operacion,TamanoDatos,NumProcesos,TiempoPromedio(microsegundos)"

\* benchmark.cpp:187-240: the measurements main makes, in order
Plan ==
    [i \in 1 .. Len(dataSizes) |-> [op |-> "MPI_Bcast", size |-> dataSizes[i]]]
    \o [i \in 1 .. Len(dataSizes) |-> [op |-> "MPI_Reduce", size |-> dataSizes[i]]]
    \o [i \in 1 .. Len(NValues) |-> [op |-> "ProgramaCompleto", size |-> NValues[i]]]

\* benchmark.cpp:191-194, 211-214, 231-234: a row of the results.  Its last
\* column, the measured time, is not modelled.
Row(op, size, procs) == [op |-> op, size |-> size, procs |-> procs]

BenchInit ==
    [m |-> 0, iter |-> 0, data |-> << >>, localData |-> << >>,
     globalData |-> << >>, sumaParcial |-> 0, sumaTotal |-> 0,
     promedioFinal |-> Zero, resultados |-> << >>]

\* the barrier a measurement starts with (benchmark.cpp:43, 77, 106)
BenchBarrier(m) ==
    CASE Plan[m].op = "MPI_Bcast" -> "b_bar43"
      [] Plan[m].op = "MPI_Reduce" -> "b_bar77"
      [] Plan[m].op = "ProgramaCompleto" -> "b_bar106"

\* benchmark.cpp:31-40, 66-74, 100-103: the locals of measurement m, up to
\* its barrier
BenchSetup(r, b, m) ==
    CASE Plan[m].op = "MPI_Bcast" ->
            [b EXCEPT !.m = m,
                      !.data = IF r = 0 THEN GenerateVec(Plan[m].size, 42)
                                        ELSE ZeroVec(Plan[m].size)]
      [] Plan[m].op = "MPI_Reduce" ->
            [b EXCEPT !.m = m,
                      !.localData = GenerateVec(Plan[m].size, r + 42),
                      !.globalData = ZeroVec(Plan[m].size)]
      [] Plan[m].op = "ProgramaCompleto" ->
            [b EXCEPT !.m = m,
                      !.data = ZeroVec(Plan[m].size),
                      !.sumaParcial = 0, !.sumaTotal = 0,
                      !.promedioFinal = Zero]

\* benchmark.cpp:112-123: the data and the partial sum of iteration iter
CompletoData(r, b) == GenerateVec(Plan[b.m].size, r + 42 + b.iter)

\* benchmark.cpp:168-188: main up to the barrier of the first measurement
BenchStart(r) ==
    /\ prog = "benchmark" /\ pc[r] = "b_begin"
    /\ bench' = [bench EXCEPT ![r] =
                    BenchSetup(r, [@ EXCEPT !.resultados = <<Header>>], 1)]
    /\ pc' = [pc EXCEPT ![r] = BenchBarrier(1)]
    /\ UNCHANGED <<benchFrame, cseq, inflight, exitCode, fileWrites>>

\* benchmark.cpp:45-47, 79-81, 108-123: the timer starts and the loop is
\* entered, up to the first collective of its body
BenchLoopStart(r) ==
    /\ prog = "benchmark" /\ pc[r] \in {"b_aft43", "b_aft77", "b_aft106"}
    /\ LET b == [bench[r] EXCEPT !.iter = 0]
       IN  CASE pc[r] = "b_aft43" ->
                  /\ bench' = [bench EXCEPT ![r] = b]
                  /\ pc' = [pc EXCEPT ![r] = "b_bcast48"]
             [] pc[r] = "b_aft77" ->
                  /\ bench' = [bench EXCEPT ![r] = b]
                  /\ pc' = [pc EXCEPT ![r] = "b_reduce82"]
             [] pc[r] = "b_aft106" ->
                  /\ bench' = [bench EXCEPT ![r] =
                        [b EXCEPT !.data = CompletoData(r, b),
                                  !.sumaParcial =
                                      calcularSumaParcial(CompletoData(r, b))]]
                  /\ pc' = [pc EXCEPT ![r] = "b_reduce126"]
    /\ UNCHANGED <<benchFrame, cseq, inflight, exitCode, fileWrites>>

\* benchmark.cpp:51-54, 188-200 (and 208-220, 228-240): the loop of a
\* measurement is over; the root appends its row; the next measurement is
\* set up, up to its barrier, or main goes on to save the results
BenchEndMeasurement(r, b) ==
    LET row == Row(Plan[b.m].op, Plan[b.m].size, numProcs)
        b2  == IF r = 0 THEN [b EXCEPT !.resultados = Append(@, row)] ELSE b
    IN  IF b.m < Len(Plan)
           THEN /\ bench' = [bench EXCEPT ![r] = BenchSetup(r, b2, b.m + 1)]
                /\ pc' = [pc EXCEPT ![r] = BenchBarrier(b.m + 1)]
           ELSE /\ bench' = [bench EXCEPT ![r] = b2]
                /\ pc' = [pc EXCEPT ![r] = "b_save"]

\* benchmark.cpp:47-49: one MPI_Bcast of benchmarkBroadcast
BenchBcast(r) ==
    /\ prog = "benchmark" /\ pc[r] = "b_bcast48"
    /\ BcastEnabled(r, "bcast_double")
    /\ LET b == [bench[r] EXCEPT !.data = BcastValue(r, bench[r].data),
                                 !.iter = @ + 1]
       IN  IF b.iter < numIterations
              THEN /\ bench' = [bench EXCEPT ![r] = b]
                   /\ pc' = pc
              ELSE BenchEndMeasurement(r, b)
    /\ BcastDone(r, "bcast_double", bench[r].data)
    /\ UNCHANGED <<benchFrame, exitCode, fileWrites>>

\* benchmark.cpp:81-83: one MPI_Reduce of benchmarkReduce
BenchReduce(r) ==
    /\ prog = "benchmark" /\ pc[r] = "b_reduce82"
    /\ ReduceEnabled(r, "reduce_double")
    /\ LET b == [bench[r] EXCEPT
                    !.globalData = ReduceVecValue(r, bench[r].localData, @),
                    !.iter = @ + 1]
       IN  IF b.iter < numIterations
              THEN /\ bench' = [bench EXCEPT ![r] = b]
                   /\ pc' = pc
              ELSE BenchEndMeasurement(r, b)
    /\ ReduceDone(r, "reduce_double", bench[r].localData)
    /\ UNCHANGED <<benchFrame, exitCode, fileWrites>>

\* benchmark.cpp:126-131: the MPI_Reduce of benchmarkCompleto and the average
BenchCompletoReduce(r) ==
    /\ prog = "benchmark" /\ pc[r] = "b_reduce126"
    /\ ReduceEnabled(r, "reduce_double")
    /\ LET total == ReduceValue(r, bench[r].sumaParcial, bench[r].sumaTotal)
       IN  bench' = [bench EXCEPT ![r] = [@ EXCEPT
                        !.sumaTotal = total,
                        !.promedioFinal =
                            IF r = 0
                               THEN FDiv(total, Plan[bench[r].m].size * numProcs)
                               ELSE @]]
    /\ ReduceDone(r, "reduce_double", bench[r].sumaParcial)
    /\ pc' = [pc EXCEPT ![r] = "b_bcast134"]
    /\ UNCHANGED <<benchFrame, exitCode, fileWrites>>

\* benchmark.cpp:134, 110-123: the MPI_Bcast of benchmarkCompleto, ++iter and
\* the next iteration up to its MPI_Reduce
BenchCompletoBcast(r) ==
    /\ prog = "benchmark" /\ pc[r] = "b_bcast134"
    /\ BcastEnabled(r, "bcast_double")
    /\ LET b == [bench[r] EXCEPT
                    !.promedioFinal = BcastValue(r, bench[r].promedioFinal),
                    !.iter = @ + 1]
       IN  IF b.iter < numIterations
              THEN /\ bench' = [bench EXCEPT ![r] =
                          [b EXCEPT !.data = CompletoData(r, b),
                                    !.sumaParcial =
                                        calcularSumaParcial(CompletoData(r, b))]]
                   /\ pc' = [pc EXCEPT ![r] = "b_reduce126"]
              ELSE BenchEndMeasurement(r, b)
    /\ BcastDone(r, "bcast_double", bench[r].promedioFinal)
    /\ UNCHANGED <<benchFrame, exitCode, fileWrites>>

\* Faulty variant of WritesFile: every rank writes the file.
WritesFileAlways(rank) == TRUE

\* benchmark.cpp:149  if (MPI::COMM_WORLD.Get_rank() == 0)
WritesFile(rank) == rank = 0

\* benchmark.cpp:148-159: the file is opened for writing (the open is taken
\* to succeed) and every line of results is written to it
guardarResultados(r, results) ==
    IF WritesFile(r)
       THEN fileWrites' = Append(fileWrites, [by |-> r, lines |-> results])
       ELSE fileWrites' = fileWrites

\* benchmark.cpp:243-252
BenchSave(r) ==
    /\ prog = "benchmark" /\ pc[r] = "b_save"
    /\ guardarResultados(r, bench[r].resultados)
    /\ pc' = [pc EXCEPT ![r] = "done"]
    /\ exitCode' = [exitCode EXCEPT ![r] = 0]
    /\ UNCHANGED <<benchFrame, cseq, inflight, bench>>

----------------------------------------------------------------------------

Programs == {"main", "test", "analysis", "benchmark"}

\* every rank starts at the first collective of its program
EntryLabel(p) ==
    CASE p = "main" -> "m_bar92"
      [] p = "test" -> "t_bar216"
      [] p = "analysis" -> "a_begin"
      [] p = "benchmark" -> "b_begin"

Init ==
    /\ prog \in Programs
    /\ numProcs \in 1 .. MaxProcs
    /\ pc = [r \in Ranks |-> EntryLabel(prog)]
    /\ cseq = [r \in Ranks |-> 0]
    /\ inflight = << >>
    /\ aborted = "none"
    /\ out = << >>
    /\ N = [r \in Ranks |-> 0]
    /\ valores = [r \in Ranks |-> << >>]
    /\ sumaParcial = [r \in Ranks |-> 0]
    /\ sumaTotal = [r \in Ranks |-> 0]
    /\ promedioFinal = [r \in Ranks |-> Zero]
    /\ loopI = [r \in Ranks |-> 0]
    /\ valorRecibido = [r \in Ranks |-> 0]
    /\ checks = [r \in Ranks |-> << >>]
    /\ todasLasPruebasPasan = [r \in Ranks |-> TRUE]
    /\ resultadoTotal = [r \in Ranks |-> 0]
    /\ exitCode = [r \in Ranks |-> -1]
    /\ ana = [r \in Ranks |-> AnaInit]
    /\ bench = [r \in Ranks |-> BenchInit]
    /\ fileWrites = << >>
    /\ trace = [r \in Ranks |-> IF prog = "test"
                                    THEN AtRoot(r, <<Ev("print", "pruebas")>>)
                                    ELSE << >>]
    /\ fault = [r \in Ranks |-> 0]

Next ==
    \/ Barrier
    \/ \E r \in Ranks : MainReadN(r)
    \/ \E r \in Ranks : MainBcastN(r)
    \/ \E r \in Ranks : MainInfoLoop(r)
    \/ \E r \in Ranks : MainStartReduce(r)
    \/ \E r \in Ranks : MainReduce(r)
    \/ \E r \in Ranks : MainBcastAvg(r)
    \/ \E r \in Ranks : MainAvgLoop(r)
    \/ \E r \in Ranks : MainFinish(r)
    \/ \E r \in Ranks : TestBroadcastStart(r)
    \/ \E r \in Ranks : TestBroadcast(r)
    \/ \E r \in Ranks : TestReduceStart(r)
    \/ \E r \in Ranks : TestReduce(r)
    \/ \E r \in Ranks : TestPromedioStart(r)
    \/ \E r \in Ranks : TestPromedio(r)
    \/ \E r \in Ranks : TestSincronizacionStart(r)
    \/ \E r \in Ranks : TestSincronizacion(r)
    \/ \E r \in Ranks : TestCompletoStart(r)
    \/ \E r \in Ranks : TestCompleto(r)
    \/ \E r \in Ranks : TestResultStart(r)
    \/ \E r \in Ranks : TestResultReduce(r)
    \/ \E r \in Ranks : TestReport(r)
    \/ \E r \in Ranks : TestFinish(r)
    \/ \E r \in Ranks : AnaStrongStart(r)
    \/ \E r \in Ranks : AnaStrongReduce(r)
    \/ \E r \in Ranks : AnaWeakStart(r)
    \/ \E r \in Ranks : AnaWeakReduce(r)
    \/ \E r \in Ranks : AnaTest1Start(r)
    \/ \E r \in Ranks : AnaTest1Reduce(r)
    \/ \E r \in Ranks : AnaTest2Reduce(r)
    \/ \E r \in Ranks : AnaTest2Bcast(r)
    \/ \E r \in Ranks : AnaTest3Reduce(r)
    \/ \E r \in Ranks : AnaCommStart(r)
    \/ \E r \in Ranks : AnaCommReduce(r)
    \/ \E r \in Ranks : AnaCommNext(r)
    \/ \E r \in Ranks : BenchStart(r)
    \/ \E r \in Ranks : BenchLoopStart(r)
    \/ \E r \in Ranks : BenchBcast(r)
    \/ \E r \in Ranks : BenchReduce(r)
    \/ \E r \in Ranks : BenchCompletoReduce(r)
    \/ \E r \in Ranks : BenchCompletoBcast(r)
    \/ \E r \in Ranks : BenchSave(r)

Spec == Init /\ [][Next]_vars

\* Every process is scheduled by the operating system: a run does not stop
\* while some rank can take a step.
FairSpec == Init /\ [][Next]_vars /\ WF_vars(Next)

\* The runs of test.cpp in which, at every rank, the check of at most one of
\* the five tests is made to fail.
FaultTests == 0 .. 5

FaultInit ==
    /\ prog = "test"
    /\ numProcs \in 1 .. MaxProcs
    /\ pc = [r \in Ranks |-> EntryLabel(prog)]
    /\ cseq = [r \in Ranks |-> 0]
    /\ inflight = << >>
    /\ aborted = "none"
    /\ out = << >>
    /\ N = [r \in Ranks |-> 0]
    /\ valores = [r \in Ranks |-> << >>]
    /\ sumaParcial = [r \in Ranks |-> 0]
    /\ sumaTotal = [r \in Ranks |-> 0]
    /\ promedioFinal = [r \in Ranks |-> Zero]
    /\ loopI = [r \in Ranks |-> 0]
    /\ valorRecibido = [r \in Ranks |-> 0]
    /\ checks = [r \in Ranks |-> << >>]
    /\ todasLasPruebasPasan = [r \in Ranks |-> TRUE]
    /\ resultadoTotal = [r \in Ranks |-> 0]
    /\ exitCode = [r \in Ranks |-> -1]
    /\ ana = [r \in Ranks |-> AnaInit]
    /\ bench = [r \in Ranks |-> BenchInit]
    /\ fileWrites = << >>
    /\ trace = [r \in Ranks |-> AtRoot(r, <<Ev("print", "pruebas")>>)]
    /\ fault \in [Ranks -> FaultTests]

FaultNext ==
    \/ Barrier
    \/ \E r \in Ranks : TestBroadcastStart(r)
    \/ \E r \in Ranks : TestBroadcast(r)
    \/ \E r \in Ranks : TestReduceStart(r)
    \/ \E r \in Ranks : TestReduce(r)
    \/ \E r \in Ranks : TestPromedioStart(r)
    \/ \E r \in Ranks : TestPromedio(r)
    \/ \E r \in Ranks : TestSincronizacionStart(r)
    \/ \E r \in Ranks : TestSincronizacion(r)
    \/ \E r \in Ranks : TestCompletoStart(r)
    \/ \E r \in Ranks : TestCompleto(r)
    \/ \E r \in Ranks : TestResultStart(r)
    \/ \E r \in Ranks : TestResultReduce(r)
    \/ \E r \in Ranks : TestReport(r)
    \/ \E r \in Ranks : TestFinish(r)

FaultSpec == FaultInit /\ [][FaultNext]_vars /\ WF_vars(FaultNext)

----------------------------------------------------------------------------
(* Positions of main.cpp and test.cpp used by the properties *)

\* main.cpp: the labels after the MPI_Bcast of the average (line 159)
MainAfterBcastAvg == {"m_bar172", "m_aft172", "m_bar176", "m_aft176", "done"}

\* main.cpp: the labels after the MPI_Reduce (line 138)
MainAfterReduce == {"m_bcast159"} \cup MainAfterBcastAvg

\* main.cpp: the labels after the MPI_Bcast of N (line 111)
MainAfterBcastN ==
    {"m_bar127", "m_aft127", "m_bar131", "m_aft131", "m_reduce138"}
    \cup MainAfterReduce

\* main.cpp: the coordinator has read N (line 99)
InputRead == prog = "main" /\ pc[0] \notin {"m_bar92", "m_aft92"}

\* test.cpp: the labels between the return of testPromedio's MPI_Reduce and
\* the start of testProgramaCompleto
TestAfterPromedio ==
    {"t_bar228", "t_aft228", "t_bar152", "t_aft152", "t_bar231", "t_aft231"}

\* test.cpp: the labels up to the return of testBroadcast's MPI_Bcast
TestBeforeBroadcast == {"t_bar216", "t_aft216", "t_bcast39"}

\* test.cpp: the labels up to the return of testReduce's MPI_Reduce
TestBeforeReduce ==
    TestBeforeBroadcast \cup {"t_bar222", "t_aft222", "t_reduce69"}

AllDone == \A r \in Ranks : pc[r] = "done"

----------------------------------------------------------------------------
(* Properties *)

\* C1: in main.cpp, once the reduction has completed at the coordinator, its
\* sumaTotal is the sum of the sumaParcial of all participants, and the
\* promedioFinal it computes is sumaTotal divided by the product N x P
\* (the quotient sumaTotal / d with d a positive multiple of P and d / P = N).
C1_ReducedSumAndAverage ==
    (prog = "main" /\ pc[0] \in MainAfterReduce) =>
        /\ sumaTotal[0] = SumRanks(sumaParcial, Ranks)
        /\ promedioFinal[0].k = "fin"
        /\ promedioFinal[0].num = sumaTotal[0]
        /\ promedioFinal[0].den > 0
        /\ promedioFinal[0].den % numProcs = 0
        /\ promedioFinal[0].den \div numProcs = N[0]

\* C2: after a broadcast from the coordinator has completed at a participant,
\* the participant holds the value the coordinator supplied: N and
\* promedioFinal in main.cpp, and 42 in testBroadcast, whose check is then
\* true at every participant.
C2_BroadcastRoundTrip ==
    \A r \in Ranks :
        /\ (prog = "main" /\ pc[r] \in MainAfterBcastN)
              => N[r] = N[0]
        /\ (prog = "main" /\ pc[r] \in MainAfterBcastAvg)
              => promedioFinal[r] = promedioFinal[0]
        /\ (prog = "test" /\ pc[r] \notin TestBeforeBroadcast)
              => (/\ valorRecibido[r] = valorOriginal
                  /\ Len(checks[r]) >= 1
                  /\ checks[r][1] = TRUE)

\* a run of main.cpp with several participants has ended, every participant
\* holding the N and the non-zero average of the coordinator
C2_Witness ==
    /\ prog = "main" /\ numProcs >= 2 /\ AllDone
    /\ N[0] > 0
    /\ promedioFinal[0].k = "fin" /\ promedioFinal[0].num # 0
    /\ \A r \in Ranks : N[r] = N[0] /\ promedioFinal[r] = promedioFinal[0]

\* C3 (as stated): when the coordinator reads N <= 0 in main.cpp, the group
\* is aborted before any participant has executed any collective call
\* (barrier, broadcast or reduce).
C3_NoCollectiveBeforeAbort ==
    (prog = "main" /\ aborted = "MPI_Abort") => \A r \in Ranks : cseq[r] = 0

\* C3 (amended): when the coordinator has read N <= 0 in main.cpp, the group
\* is aborted, and the only collective any participant has executed is the
\* barrier of line 92: no broadcast and no reduction has been started by the
\* coordinator or completed by anyone.
C3_OnlyFirstBarrierBeforeAbort ==
    (InputRead /\ N[0] <= 0) =>
        /\ aborted = "MPI_Abort"
        /\ \A r \in Ranks : cseq[r] = 1
        /\ DOMAIN inflight = {}

\* the group has been aborted because the coordinator read N = 0
C3_Witness ==
    /\ prog = "main" /\ numProcs >= 2
    /\ InputRead /\ N[0] = 0
    /\ aborted = "MPI_Abort"
    /\ \A r \in Ranks : cseq[r] = 1

\* C4: when the coordinator has read N <= 0 in main.cpp, it has raised the
\* abort without entering the broadcast of N (it printed the error, not the
\* distribution notice), every participant is terminated, and no participant
\* has generated data, reduced, or received N or an average.
C4_AbortTerminatesEveryone ==
    (InputRead /\ N[0] <= 0) =>
        /\ \A r \in Ranks :
              /\ pc[r] = "killed"
              /\ valores[r] = << >>
              /\ sumaParcial[r] = 0
              /\ sumaTotal[r] = 0
              /\ promedioFinal[r] = Zero
              /\ r # 0 => N[r] = 0
        /\ out = <<Say(0, "banner"), Say(0, "error")>>

\* the coordinator read a negative N with other participants in the group,
\* and all of them are terminated
C4_Witness ==
    /\ prog = "main" /\ numProcs >= 2
    /\ InputRead /\ N[0] = -1
    /\ \A r \in Ranks : pc[r] = "killed"

\* C5: in test.cpp, when every participant has returned from main, the exit
\* code of every participant is 0 if all checks passed at all participants
\* and 1 otherwise.
C5_ExitCodeEverywhere ==
    (prog = "test" /\ AllDone) =>
        \A r \in Ranks :
            exitCode[r] = (IF \A q \in Ranks : todasLasPruebasPasan[q]
                              THEN 0 ELSE 1)

\* C6: the sum reduction of rank + 1 over the P participants gives
\* P * (P + 1) / 2 at the coordinator: the check of testReduce is true there,
\* and Test 3 of robustnessTest reports success, never failure.
C6_TriangularSum ==
    /\ (prog = "test" /\ pc[0] \in {"t_bar225", "t_aft225"})
          => sumaTotal[0] * 2 = numProcs * (numProcs + 1)
    /\ (prog = "test" /\ pc[0] \notin TestBeforeReduce)
          => (Len(checks[0]) >= 2 /\ checks[0][2] = TRUE)
    /\ (prog = "analysis" /\ pc[0] = "a_comm")
          => ana[0].globalSum * 2 = numProcs * (numProcs + 1)
    /\ (prog = "analysis"
           /\ pc[0] \in {"a_comm", "a_reduce281", "a_commnext", "done"})
          => (/\ \E i \in DOMAIN out : out[i] = Say(0, "test3 ok")
              /\ \A i \in DOMAIN out : out[i] # Say(0, "test3 failed"))

\* testReduce has returned at the coordinator of a group of several
\* participants, with the triangular number as the reduced sum
C6_Witness ==
    /\ prog = "test" /\ numProcs >= 2
    /\ pc[0] = "t_bar225"
    /\ sumaTotal[0] = (numProcs * (numProcs + 1)) \div 2
    /\ checks[0][2] = TRUE

\* C7: in testPromedio every participant contributes 15 + 50 * rank, and the
\* average the coordinator computes from the reduced sum divided by 5 * P is
\* 3 + 5 * (P - 1), so its check is true.
C7_PromedioClosedForm ==
    /\ \A r \in Ranks :
          (prog = "test" /\ pc[r] \in {"t_reduce107"} \cup TestAfterPromedio)
             => sumaParcial[r] = 15 + 50 * r
    /\ (prog = "test" /\ pc[0] \in TestAfterPromedio) =>
          /\ promedioFinal[0].k = "fin"
          /\ promedioFinal[0].den = 5 * numProcs
          /\ promedioFinal[0].num = (3 + 5 * (numProcs - 1)) * promedioFinal[0].den
          /\ Len(checks[0]) >= 3
          /\ checks[0][3] = TRUE

\* testPromedio has returned at the coordinator of a group of several
\* participants, and its check was true
C7_Witness ==
    /\ prog = "test" /\ numProcs >= 2
    /\ pc[0] = "t_bar228"
    /\ checks[0][3] = TRUE
    /\ promedioFinal[0].num = (3 + 5 * (numProcs - 1)) * promedioFinal[0].den

\* C8: in Test 2 of robustnessTest, the globalSum a participant holds after
\* the broadcast of round j is the one it held after the broadcast of round 1,
\* for every round j it has completed, and it is the same at every
\* participant that has completed round j.
C8_RoundsIdempotent ==
    prog = "analysis" =>
        \A r \in Ranks :
            /\ Len(ana[r].roundSums) <= Test2Rounds
            /\ \A j \in 1 .. Len(ana[r].roundSums) :
                  /\ ana[r].roundSums[j] = ana[r].roundSums[1]
                  /\ \A q \in Ranks :
                        j <= Len(ana[q].roundSums)
                            => ana[q].roundSums[j] = ana[r].roundSums[j]

\* every participant of a group of several has completed the ten rounds, with
\* a non-zero global sum
C8_Witness ==
    /\ prog = "analysis" /\ numProcs >= 2
    /\ \A r \in Ranks : Len(ana[r].roundSums) = Test2Rounds
    /\ ana[0].roundSums[Test2Rounds] # 0

\* the lines of the CSV file of a complete run: the header, then one row per
\* measurement, in measurement order
ExpectedLines ==
    <<Header>> \o [i \in 1 .. Len(Plan) |->
                      Row(Plan[i].op, Plan[i].size, numProcs)]

C10_RatiosSumTo100 ==
    (prog = "analysis" /\ pc[0] = "a_commnext") =>
        FEqInt(FAdd(ana[0].compRatio, ana[0].commRatio), 100)

AnaCollective(l) ==
    CASE l \in {"a_reduce90", "a_reduce138", "a_reduce187", "a_reduce218",
                "a_reduce281"} -> "reduce_double"
      [] l = "a_reduce235" -> "reduce_int"
      [] l = "a_bcast220" -> "bcast_double"
      [] OTHER -> "none"

\* C12: in robustnessTest every participant that goes on to Test 2 has taken
\* part in the reduction of Test 1 (its third collective), also when its Test 1
\* block raised an exception; and no participant is in a collective that
\* another participant entered as a different operation.
C12_NoCollectiveSkipped ==
    prog = "analysis" =>
        \A r \in Ranks :
            /\ (pc[r] = "a_reduce218" /\ ana[r].iter = 0) => cseq[r] = 3
            /\ AnaCollective(pc[r]) # "none"
                  => OpMatches(K(r), AnaCollective(pc[r]))

\* C13: in main.cpp and analysis.cpp every timer is started by a participant
\* right after it has left a barrier: the event before a timer start in the
\* trace of the participant is a barrier, with no other collective, console
\* write or input read in between.
C13_TimersRightAfterBarrier ==
    prog \in {"main", "analysis"} =>
        \A r \in Ranks :
            \A i \in DOMAIN trace[r] :
                trace[r][i].kind = "timer"
                    => (i > 1 /\ trace[r][i - 1].kind = "barrier")

IsInfo(e) == e.what = "info"
IsReceived(e) == e.what = "received"

\* the ranks of a sequence of console lines are 0, 1, 2, ... in this order
AscendingRanks(lines) == \A k \in DOMAIN lines : lines[k].rank = k - 1

\* C14: in each of the two output loops of main.cpp the participants print
\* in ascending rank order: the k-th line a loop has written so far is the
\* line of rank k - 1, so for i < j the print of i is complete before the
\* print of j starts.
C14_PrintsInRankOrder ==
    prog = "main" =>
        /\ AscendingRanks(SelectSeq(out, IsInfo))
        /\ AscendingRanks(SelectSeq(out, IsReceived))

\* a run of main.cpp with several participants has ended, and every
\* participant has printed in both loops
C14_Witness ==
    /\ prog = "main" /\ numProcs >= 2 /\ AllDone
    /\ Len(SelectSeq(out, IsInfo)) = numProcs
    /\ Len(SelectSeq(out, IsReceived)) = numProcs

\* the number of barriers a rank has left before the i-th event of its trace t
Epoch(t, i) == Cardinality({j \in 1 .. i : t[j].kind = "barrier"})

\* C15: console output comes from the coordinator alone or from participants
\* taking turns between barriers: no two different participants both write
\* to the console between the same pair of consecutive barriers.
C15_OneWriterBetweenBarriers ==
    prog \in {"main", "test", "analysis"} =>
        \A r, q \in Ranks :
            r # q =>
                \A i \in DOMAIN trace[r], j \in DOMAIN trace[q] :
                    (trace[r][i].kind = "print" /\ trace[q][j].kind = "print")
                        => Epoch(trace[r], i) # Epoch(trace[q], j)

\* test.cpp: the collectives main and the five tests call (9 barriers, 1
\* broadcast, 4 reductions)
TestCollectives == 9 + 1 + 4

\* the participants whose five checks all came out true
Passing == {r \in Ranks : \A i \in DOMAIN checks[r] : checks[r][i]}

\* C16: in test.cpp, whichever checks fail at whichever participants, every
\* participant eventually returns from main having run the five tests and
\* all the collectives, and the resultadoTotal of the coordinator is the
\* number of participants whose five checks were all true.
C16_FailedCheckNotFatal ==
    <>(/\ AllDone
       /\ \A r \in Ranks : Len(checks[r]) = 5 /\ cseq[r] = TestCollectives
       /\ resultadoTotal[0] = Cardinality(Passing))

\* a run of test.cpp has ended in which some but not all of several
\* participants had a failed check
C16_Witness ==
    /\ prog = "test" /\ numProcs >= 2 /\ AllDone
    /\ \E r \in Ranks : ~todasLasPruebasPasan[r]
    /\ resultadoTotal[0] > 0 /\ resultadoTotal[0] < numProcs

\* C17: in strongScalingAnalysis the lengths of the local datasets of all
\* participants add up to the total size N, the divisor of the printed
\* average.
C17_StrongScalingSizes ==
    (prog = "analysis" /\ \A r \in Ranks : pc[r] = "a_reduce90") =>
        /\ \A r \in Ranks :
              VecSize(ana[r].data) = ElementsPerProc(StrongN, numProcs)
        /\ SumRanks([r \in Ranks |-> VecSize(ana[r].data)], Ranks) = StrongN

\* C18: for the N the coordinator accepted and the group size P, the int
\* expression N * numProcs of main.cpp has one outcome, the product N x P: a
\* positive multiple d of P with d / P = N.  It does not trap, wrap around,
\* become zero or become negative.
C18_TotalCountIsProduct ==
    (prog = "main" /\ InputRead /\ N[0] > 0) =>
        /\ aborted # "SIGABRT"
        /\ \A d \in IntMul(N[0], numProcs) :
              /\ ~d.trap
              /\ d.val > 0
              /\ d.val % numProcs = 0
              /\ d.val \div numProcs = N[0]

\* C19: in main.cpp a participant prints the average it received only after
\* the coordinator has computed promedioFinal (and printed its results), and
\* the coordinator prints the timing summary only after every participant
\* has printed the average it received.
C19_AverageThenSummary ==
    prog = "main" =>
        \A i \in DOMAIN out :
            /\ out[i].what = "received"
                  => (/\ \E j \in 1 .. (i - 1) : out[j] = Say(0, "results")
                      /\ pc[0] \in MainAfterReduce
                      /\ promedioFinal[out[i].rank] = promedioFinal[0])
            /\ out[i].what = "summary"
                  => \A r \in Ranks :
                        \E j \in 1 .. (i - 1) : out[j] = Say(r, "received")

\* the coordinator of a run of main.cpp with several participants has
\* printed the summary as the last console line
C19_Witness ==
    /\ prog = "main" /\ numProcs >= 2
    /\ Len(out) > 0 /\ out[Len(out)] = Say(0, "summary")
    /\ \A r \in Ranks : \E j \in DOMAIN out : out[j] = Say(r, "received")

====
